---- MODULE Spec2Model ----
(***************************************************************************)
(* CommentFetcher of reddit-fetcher/fetchers/comment.py: the retry wrapper  *)
(* around the provider's replace_more, the three traversals of a comment    *)
(* forest (flat, tree, stream), the record normalizer, the ancestor walk    *)
(* of _get_comment_depth and get_comment_stats.                             *)
(*                                                                          *)
(* Strings that the code takes apart (ids, the raw parent reference) are    *)
(* sequences of one-character strings, so that startswith and slicing are   *)
(* computed; strings that are only compared are TLA+ strings.               *)
(***************************************************************************)
EXTENDS Integers, Sequences, FiniteSets, TLC

VARIABLES
    self,          \* the CommentFetcher's configuration (__init__)
    submission,    \* the submission handed to the fetch: id and comment forest
    call,          \* the arguments of the fetch call in progress
    pc,            \* where the fetch call stands
    retries,       \* local `retries` of _replace_more_comments
    replace_more,  \* every invocation of submission.comments.replace_more so far
    sleeps,        \* every time.sleep(delay) so far
    normalized,    \* the nodes passed to _process_comment so far, in order
    comments,      \* the list fetch_submission_comments returned
    streamed,      \* the records the stream generator has yielded so far
    stack,         \* the suspended frames of the _stream_comments generators
    error,         \* the exception that left the fetch call, if any
    stats,         \* what get_comment_stats returned, once it was called
    walk           \* the locals of a _get_comment_depth call in progress

vars == <<self, submission, call, pc, retries, replace_more, sleeps,
          normalized, comments, streamed, stack, error, stats, walk>>

----------------------------------------------------------------------------
(* Bounds of the model *)

\* most nodes of a forest with every kind of node in it
MaxNodes == 3
\* most nodes of a forest of plain, deleted and placeholder nodes
MaxDeepNodes == 4
\* most nodes of a forest whose records are handed to get_comment_stats
MaxStatsNodes == 4
\* most nodes of a forest with nodes whose body cannot be read
MaxFailNodes == 3
\* most nodes of a forest whose parent() lookups are arbitrary
MaxWalkNodes == 3
\* the depth at which a walk that has not ended is left alone
MaxWalkDepth == 6
\* most nodes of a forest of every combination of author and body
MaxNormNodes == 2
\* how far below zero a fetcher's max_retries is configured
MaxBelowZero == 1
\* largest max_retries a fetcher is configured with
MaxRetries == 4

----------------------------------------------------------------------------
(* enums.py and the defaults of __init__ *)

DELETED == "[deleted]"
REMOVED == "[removed]"
NORMAL == "normal"

COMMENT_PREFIX == <<"t", "1", "_">>
SUBMISSION_PREFIX == <<"t", "3", "_">>

DefaultThreshold == 32
TestThreshold == 10
DefaultRetryDelay == 1

\* Python's None, as an author (a string) and as an id (a sequence)
NoAuthor == "<None>"
None == <<"<None>">>
\* None, as the value of comment.parent(), where node 0 is the Submission
NoParent == -1

NoError == "none"
PRAWException == "PRAWException"
NormalizationError == "Exception"
\* an exception of replace_more that is not a PRAWException
OtherException == "RuntimeError"

----------------------------------------------------------------------------
(* The provider's comment forest.  A forest is a function from node numbers *)
(* to raw nodes plus the sequence of its top-level nodes; node 0 stands for *)
(* the submission.                                                          *)

SubmissionId == <<"s", "u", "b">>
NodeId(n) == <<"c", ToString(n)>>

\* the kinds of raw node a forest is drawn from: kind, author, body, whether
\* reading the body raises, whether the raw parent reference agrees with the
\* node's place in the forest, score and gilded
Plain == [kind |-> "Comment", author |-> "user1", body |-> NORMAL,
          body_raises |-> FALSE, ref |-> "agrees", score |-> 10, gilded |-> 0]
Deleted == [Plain EXCEPT !.author = NoAuthor, !.body = DELETED]
Removed == [Plain EXCEPT !.body = REMOVED]
Placeholder == [Plain EXCEPT !.kind = "MoreComments"]
Malformed == [Plain EXCEPT !.body_raises = TRUE]
MalformedAnon == [Plain EXCEPT !.author = NoAuthor, !.body_raises = TRUE]
Misreferenced == [Plain EXCEPT !.ref = "disagrees"]

\* the other combinations of author and body
Anonymous == [Plain EXCEPT !.author = NoAuthor]
AuthoredDeletedBody == [Plain EXCEPT !.body = DELETED]
AnonymousRemoved == [Plain EXCEPT !.author = NoAuthor, !.body = REMOVED]

\* raw nodes for the records of test_comment_stats: a second author, whose
\* comment is removed and gilded, and a deleted comment of score 0
RemovedOther == [Removed EXCEPT !.author = "user2", !.score = 20, !.gilded = 1]
DeletedZero == [Deleted EXCEPT !.score = 0]

AllProfiles == {Plain, Deleted, Removed, Placeholder, Malformed, MalformedAnon,
                Misreferenced}
DeepProfiles == {Plain, Deleted, Placeholder}
RetryProfiles == {Plain, Placeholder}
\* the kinds of node a traversal skips, prunes or fails on
FailProfiles == {Plain, Deleted, Placeholder, Malformed, MalformedAnon}
StatsProfiles == {Plain, RemovedOther, DeletedZero}
\* author present or absent, with each of the three bodies
NormProfiles == {Plain, Deleted, Removed, Anonymous, AuthoredDeletedBody,
                 AnonymousRemoved}

RECURSIVE Ancestors(_, _)
Ancestors(up, n) == IF n = 0 THEN {} ELSE {n} \cup Ancestors(up, up[n])

\* the shapes of an ordered forest of n nodes numbered in pre-order: up[k] is
\* the node k replies to, 0 for a top-level node
Shapes(n) ==
    {up \in [1..n -> 0..n] :
        /\ \A k \in 1..n : up[k] < k
        /\ \A k \in 2..n : up[k] \in {0} \cup Ancestors(up, k - 1)}

RECURSIVE ChildrenFrom(_, _, _, _)
ChildrenFrom(up, n, p, k) ==
    IF k > n THEN <<>>
    ELSE (IF up[k] = p THEN <<k>> ELSE <<>>) \o ChildrenFrom(up, n, p, k + 1)

Children(up, n, p) == ChildrenFrom(up, n, p, 1)

\* the raw parent_id field of node k
RawParentId(up, k, ref) ==
    IF ref = "agrees"
    THEN IF up[k] = 0 THEN SUBMISSION_PREFIX \o SubmissionId
                      ELSE COMMENT_PREFIX \o NodeId(up[k])
    ELSE IF up[k] = 0 THEN COMMENT_PREFIX \o <<"x">>
                      ELSE SUBMISSION_PREFIX \o SubmissionId

MkNode(up, n, pf, k) ==
    [kind |-> pf[k].kind,
     id |-> NodeId(k),
     author |-> pf[k].author,
     body |-> pf[k].body,
     body_raises |-> pf[k].body_raises,
     score |-> pf[k].score,
     gilded |-> pf[k].gilded,
     parent_id |-> RawParentId(up, k, pf[k].ref),
     replies |-> Children(up, n, k),
     parent |-> up[k]]

MkForest(up, n, pf) ==
    [top |-> Children(up, n, 0),
     node |-> [k \in 1..n |-> MkNode(up, n, pf, k)]]

\* the forests of at most max nodes drawn from profiles; a placeholder has no
\* replies of its own
Forests(max, profiles) ==
    UNION {
        {MkForest(up, n, pf) :
            <<up, pf>> \in
                {x \in Shapes(n) \X [1..n -> profiles] :
                    \A k \in 1..n :
                        x[2][k].kind = "MoreComments" => \A j \in 1..n : x[1][j] # k}}
        : n \in 0..max}

\* plain top-level comments whose parent() returns whatever parent_of says:
\* None, the submission (0) or any comment, itself included
WalkForest(n, parent_of) ==
    LET up == [k \in 1..n |-> 0]
        pf == [k \in 1..n |-> Plain]
    IN  [top |-> Children(up, n, 0),
         node |-> [k \in 1..n |->
                      [MkNode(up, n, pf, k) EXCEPT !.parent = parent_of[k]]]]

WalkForests(max) ==
    UNION {{WalkForest(n, parent_of) :
                parent_of \in [1..n -> {NoParent} \cup (0..n)]} : n \in 1..max}

\* CommentForest.list() of the provider: the forest flattened breadth-first,
\* placeholders included and not descended into
RECURSIVE ListFrom(_, _)
ListFrom(forest, queue) ==
    IF queue = <<>> THEN <<>>
    ELSE LET k == Head(queue)
         IN  <<k>> \o ListFrom(forest,
                 Tail(queue) \o (IF forest.node[k].kind = "MoreComments" THEN <<>>
                                 ELSE forest.node[k].replies))

ForestList_TopLevelOnly(forest) == forest.top

ForestList(forest) == ListFrom(forest, forest.top)

\* `isinstance(comment, MoreComments)`
isMoreComments_Never(forest, k) == FALSE

isMoreComments(forest, k) == forest.node[k].kind = "MoreComments"

----------------------------------------------------------------------------
(* _is_deleted, _is_removed *)

\* `comment.author is None and comment.body == DELETED`: the body is read,
\* and the read can raise, only when the author is absent
IsDeletedRaises(c) == c.author = NoAuthor /\ c.body_raises

IsDeleted_AuthorOnly(c) == c.author = NoAuthor

IsDeleted(c) == c.author = NoAuthor /\ c.body = DELETED

IsRemoved_AnySentinel(c) == c.body \in {REMOVED, DELETED}

IsRemoved(c) == c.body = REMOVED

----------------------------------------------------------------------------
(* _process_comment *)

StartsWith(s, prefix) ==
    /\ Len(s) >= Len(prefix)
    /\ SubSeq(s, 1, Len(prefix)) = prefix

DerivedParentId_KeepsPrefix(raw) ==
    IF raw # <<>> /\ StartsWith(raw, SUBMISSION_PREFIX) THEN None ELSE raw

\* the parent id derived from the raw parent reference when none is supplied
DerivedParentId(raw) ==
    IF raw # <<>> /\ StartsWith(raw, SUBMISSION_PREFIX) THEN None
    ELSE IF raw # <<>> /\ StartsWith(raw, COMMENT_PREFIX)
         THEN SubSeq(raw, Len(COMMENT_PREFIX) + 1, Len(raw))
         ELSE raw

ResolveParentId_AlwaysDerived(c, parent_id) == DerivedParentId(c.parent_id)

\* `if parent_id is None and hasattr(comment, 'parent_id')`: an explicit
\* parent id is kept as it is
ResolveParentId(c, parent_id) ==
    IF parent_id = None THEN DerivedParentId(c.parent_id) ELSE parent_id

\* reading a required raw field raises inside the try block
ProcessCommentRaises(c) == c.body_raises

CommentRecord(c, submission_id, parent_id, depth) ==
    [id |-> c.id,
     submission_id |-> submission_id,
     parent_id |-> ResolveParentId(c, parent_id),
     author |-> IF c.author # NoAuthor THEN c.author ELSE DELETED,
     body |-> c.body,
     score |-> c.score,
     depth |-> depth,
     gilded |-> c.gilded,
     is_deleted |-> IsDeleted(c),
     is_removed |-> IsRemoved(c)]

ProcessComment_ReturnsNone(c, submission_id, parent_id, depth) ==
    IF ProcessCommentRaises(c)
    THEN [raised |-> FALSE, data |-> <<>>]
    ELSE [raised |-> FALSE,
          data |-> <<CommentRecord(c, submission_id, parent_id, depth)>>]

\* the outcome of _process_comment: the exception, logged and raised again by
\* the except handler, or the record; data is a sequence of at most one
\* record, the empty sequence standing for a falsy return value
ProcessComment(c, submission_id, parent_id, depth) ==
    IF ProcessCommentRaises(c)
    THEN [raised |-> TRUE, data |-> <<>>]
    ELSE [raised |-> FALSE,
          data |-> <<CommentRecord(c, submission_id, parent_id, depth)>>]

----------------------------------------------------------------------------
(* _get_comment_depth *)

LoopContinues_Bounded(forest, current, depth) ==
    LET parent == forest.node[current].parent
    IN  parent # NoParent /\ parent # 0 /\ depth < Cardinality(DOMAIN forest.node)

\* the loop goes on to the parent unless parent() is falsy or the parent is
\* the Submission (node 0)
LoopContinues(forest, current, depth) ==
    LET parent == forest.node[current].parent
    IN  parent # NoParent /\ parent # 0

RECURSIVE DepthWalk(_, _, _)
DepthWalk(forest, current, depth) ==
    IF LoopContinues(forest, current, depth)
    THEN DepthWalk(forest, forest.node[current].parent, depth + 1)
    ELSE depth

GetCommentDepth_CountsSubmission(forest, k) == DepthWalk(forest, k, 1)

GetCommentDepth(forest, k) == DepthWalk(forest, k, 0)

----------------------------------------------------------------------------
(* _extract_comments_flat *)

\* every traversal returns whether an exception left it, the records it built
\* and the nodes it passed to _process_comment
Result(raised, recs, nodes) ==
    [raised |-> raised, comments |-> recs, normalized |-> nodes]

RECURSIVE FlatFrom(_, _, _, _)
FlatFrom(forest, items, submission_id, include_deleted) ==
    IF items = <<>> THEN Result(FALSE, <<>>, <<>>)
    ELSE LET k == Head(items)
             c == forest.node[k]
             rest == FlatFrom(forest, Tail(items), submission_id, include_deleted)
         IN  IF isMoreComments(forest, k) THEN rest
             ELSE LET comment_data ==
                          ProcessComment(c, submission_id, None,
                                         GetCommentDepth(forest, k))
                  IN  IF comment_data.raised THEN Result(TRUE, <<>>, <<k>>)
                      ELSE IF rest.raised
                           THEN Result(TRUE, <<>>, <<k>> \o rest.normalized)
                           ELSE Result(FALSE,
                                    (IF /\ comment_data.data # <<>>
                                        /\ (include_deleted \/ ~IsDeleted(c))
                                     THEN comment_data.data ELSE <<>>)
                                        \o rest.comments,
                                    <<k>> \o rest.normalized)

ExtractCommentsFlat(forest, submission_id, include_deleted) ==
    FlatFrom(forest, ForestList(forest), submission_id, include_deleted)

----------------------------------------------------------------------------
(* _extract_comments_tree *)

WithReplies(data, replies) ==
    [id |-> data.id,
     submission_id |-> data.submission_id,
     parent_id |-> data.parent_id,
     author |-> data.author,
     body |-> data.body,
     score |-> data.score,
     depth |-> data.depth,
     gilded |-> data.gilded,
     is_deleted |-> data.is_deleted,
     is_removed |-> data.is_removed,
     replies |-> replies]

RECURSIVE ExtractCommentsTree(_, _, _, _, _, _)
ExtractCommentsTree(forest, items, submission_id, parent_id, depth, include_deleted) ==
    IF items = <<>> THEN Result(FALSE, <<>>, <<>>)
    ELSE LET k == Head(items)
             c == forest.node[k]
             rest == ExtractCommentsTree(forest, Tail(items), submission_id,
                                         parent_id, depth, include_deleted)
         IN  IF isMoreComments(forest, k) THEN rest
             ELSE IF ~include_deleted /\ IsDeletedRaises(c)
                  THEN Result(TRUE, <<>>, <<>>)
             ELSE IF ~include_deleted /\ IsDeleted(c) THEN rest
             ELSE LET comment_data ==
                          ProcessComment(c, submission_id, parent_id, depth)
                      replies ==
                          IF c.replies # <<>>
                          THEN ExtractCommentsTree(forest, c.replies, submission_id,
                                                   c.id, depth + 1, include_deleted)
                          ELSE Result(FALSE, <<>>, <<>>)
                  IN  IF comment_data.raised THEN Result(TRUE, <<>>, <<k>>)
                      ELSE IF comment_data.data = <<>>
                           THEN IF rest.raised
                                THEN Result(TRUE, <<>>, <<k>> \o rest.normalized)
                                ELSE Result(FALSE, rest.comments,
                                            <<k>> \o rest.normalized)
                      ELSE IF replies.raised
                           THEN Result(TRUE, <<>>, <<k>> \o replies.normalized)
                      ELSE IF rest.raised
                           THEN Result(TRUE, <<>>,
                                    <<k>> \o replies.normalized \o rest.normalized)
                           ELSE Result(FALSE,
                                    <<WithReplies(comment_data.data[1],
                                                  replies.comments)>>
                                        \o rest.comments,
                                    <<k>> \o replies.normalized \o rest.normalized)

----------------------------------------------------------------------------
(* _stream_comments: a generator, modelled by the stack of its suspended     *)
(* frames.  A frame is the loop of one _stream_comments call: the items it   *)
(* iterates, the index of the item at hand, its parent_id and depth, and     *)
(* whether it is suspended at the yield of that item.                        *)

Frame(items, parent_id, depth) ==
    [items |-> items, i |-> 1, parent_id |-> parent_id, depth |-> depth,
     yielded |-> FALSE]

Push(stk, frame) == <<frame>> \o stk

Descend_AfterSiblings(stk, frame) == <<Head(stk), frame>> \o Tail(stk)

\* `yield from self._stream_comments(comment.replies, ...)`: the generator of
\* the replies runs before the loop over the siblings goes on
Descend(stk, frame) == Push(stk, frame)

\* the generator resumed until its next yield, its exhaustion or an exception
RECURSIVE Resume(_, _, _, _, _)
Resume(forest, stk, submission_id, include_deleted, nodes) ==
    IF stk = <<>>
    THEN [status |-> "stop", stack |-> stk, data |-> <<>>, normalized |-> nodes]
    ELSE LET top == Head(stk)
             next == [top EXCEPT !.i = @ + 1, !.yielded = FALSE]
         IN  IF top.i > Len(top.items)
             THEN Resume(forest, Tail(stk), submission_id, include_deleted, nodes)
             ELSE LET k == top.items[top.i]
                      c == forest.node[k]
                      skip == Resume(forest, Push(Tail(stk), next), submission_id,
                                     include_deleted, nodes)
                  IN  IF top.yielded
                      THEN \* resumed after the yield: descend into the replies
                           IF c.replies # <<>>
                           THEN Resume(forest,
                                    Descend(Push(Tail(stk), next),
                                            Frame(c.replies, c.id, top.depth + 1)),
                                    submission_id, include_deleted, nodes)
                           ELSE skip
                      ELSE IF isMoreComments(forest, k) THEN skip
                      ELSE IF ~include_deleted /\ IsDeletedRaises(c)
                           THEN [status |-> "raise", stack |-> <<>>, data |-> <<>>,
                                 normalized |-> nodes]
                      ELSE IF ~include_deleted /\ IsDeleted(c) THEN skip
                      ELSE LET comment_data ==
                                   ProcessComment(c, submission_id, top.parent_id,
                                                  top.depth)
                           IN  IF comment_data.raised
                               THEN [status |-> "raise", stack |-> <<>>,
                                     data |-> <<>>,
                                     normalized |-> Append(nodes, k)]
                               ELSE IF comment_data.data = <<>>
                               THEN Resume(forest, Push(Tail(stk), next),
                                           submission_id, include_deleted,
                                           Append(nodes, k))
                               ELSE [status |-> "yield",
                                     stack |-> Push(Tail(stk),
                                                    [top EXCEPT !.yielded = TRUE]),
                                     data |-> comment_data.data,
                                     normalized |-> Append(nodes, k)]

----------------------------------------------------------------------------
(* The fetcher and the calls made on it *)

Fetchers(max_retries_set, thresholds) ==
    [max_retries : max_retries_set,
     retry_delay : {DefaultRetryDelay},
     replace_more_limit : {"None"},
     replace_more_threshold : thresholds]

\* fetchers that differ in their retry budget and their base delay
DelayedFetchers(max_retries_set, delays) ==
    [max_retries : max_retries_set,
     retry_delay : delays,
     replace_more_limit : {"None"},
     replace_more_threshold : {DefaultThreshold}]

NoCall == [fn |-> "none", flatten |-> FALSE, include_deleted |-> FALSE]

\* get_comment_stats has not been called; no _get_comment_depth call is open
NoStats == <<>>
NoWalk == [comment |-> 0, current |-> 0, depth |-> 0, state |-> "idle"]

InitWith(fetchers, forests) ==
    /\ self \in fetchers
    /\ submission \in [id : {SubmissionId}, comments : forests]
    /\ call = NoCall
    /\ pc = "idle"
    /\ retries = 0
    /\ replace_more = <<>>
    /\ sleeps = <<>>
    /\ normalized = <<>>
    /\ comments = <<>>
    /\ streamed = <<>>
    /\ stack = <<>>
    /\ error = NoError
    /\ stats = NoStats
    /\ walk = NoWalk

\* a fetcher as the tests set it up (max_retries=2, threshold=10), on any
\* forest of every kind of node
Init ==
    InitWith(Fetchers({2}, {TestThreshold}), Forests(MaxNodes, AllProfiles))

\* any retry budget, on a small forest
InitRetry ==
    InitWith(Fetchers(1..MaxRetries, {DefaultThreshold, TestThreshold}),
             Forests(1, RetryProfiles))

\* deeper forests of fewer kinds of node
InitDeep ==
    InitWith(Fetchers({1}, {DefaultThreshold}), Forests(MaxDeepNodes, DeepProfiles))

\* every combination of author and body, on small forests
InitNorm ==
    InitWith(Fetchers({1}, {DefaultThreshold}), Forests(MaxNormNodes, NormProfiles))

\* two authors, a deleted and a removed comment, with scores and a gilding
InitStats ==
    InitWith(Fetchers({1}, {DefaultThreshold}), Forests(MaxStatsNodes, StatsProfiles))

\* any retry budget and two base delays, on a small forest
InitBackoff ==
    InitWith(DelayedFetchers(1..MaxRetries, {DefaultRetryDelay, 3}),
             Forests(1, RetryProfiles))

\* comments whose parent() lookups form any chain, cycles included
InitWalk ==
    InitWith(Fetchers({1}, {DefaultThreshold}), WalkForests(MaxWalkNodes))

\* forests in which a traversal can fail at any place
InitFailure ==
    InitWith(Fetchers({1}, {DefaultThreshold}), Forests(MaxFailNodes, FailProfiles))

\* fetchers with no retry budget, next to one with a budget of 1
InitNoBudget ==
    InitWith(Fetchers((0 - MaxBelowZero)..1, {DefaultThreshold}),
             Forests(2, RetryProfiles))

\* any retry budget, with a provider that raises any kind of exception
InitOther ==
    InitWith(Fetchers(1..MaxRetries, {DefaultThreshold}), Forests(1, RetryProfiles))

\* fetch_submission_comments entered: the call reaches _replace_more_comments
FetchSubmissionComments ==
    /\ pc = "idle"
    /\ \E include_deleted \in BOOLEAN, flatten \in BOOLEAN :
           call' = [fn |-> "fetch_submission_comments", flatten |-> flatten,
                    include_deleted |-> include_deleted]
    /\ pc' = "replace_more"
    /\ retries' = 0
    /\ UNCHANGED <<stats, walk>>
    /\ UNCHANGED <<self, submission, replace_more, sleeps, normalized, comments,
                   streamed, stack, error>>

\* the generator of fetch_submission_comments_stream started by its consumer
FetchSubmissionCommentsStream ==
    /\ pc = "idle"
    /\ \E include_deleted \in BOOLEAN :
           call' = [fn |-> "fetch_submission_comments_stream", flatten |-> FALSE,
                    include_deleted |-> include_deleted]
    /\ pc' = "replace_more"
    /\ retries' = 0
    /\ UNCHANGED <<stats, walk>>
    /\ UNCHANGED <<self, submission, replace_more, sleeps, normalized, comments,
                   streamed, stack, error>>

----------------------------------------------------------------------------
(* _replace_more_comments: one action per invocation of replace_more *)

RetryBudgetLeft_AtLeastOnce(r, max_retries) == r < max_retries \/ r = 0

\* `while retries < self.max_retries`
RetryBudgetLeft(r, max_retries) == r < max_retries

BudgetExhausted_OffByOne(r, max_retries) == r > max_retries

\* `if retries >= self.max_retries: raise`
BudgetExhausted(r, max_retries) == r >= max_retries

Backoff_Linear(retry_delay, r) == retry_delay * r

\* `delay = self.retry_delay * (2 ** (retries - 1))`
Backoff(retry_delay, r) == retry_delay * (2 ^ (r - 1))

Invocation_DefaultThreshold(raised) ==
    [limit |-> self.replace_more_limit,
     threshold |-> DefaultThreshold,
     raised |-> raised]

Invocation(raised) ==
    [limit |-> self.replace_more_limit,
     threshold |-> self.replace_more_threshold,
     raised |-> raised]

ReplaceMoreReturns_NoReturn ==
    /\ pc = "replace_more"
    /\ RetryBudgetLeft(retries, self.max_retries)
    /\ replace_more' = Append(replace_more, Invocation(FALSE))
    /\ UNCHANGED <<stats, walk>>
    /\ UNCHANGED <<self, submission, call, pc, retries, sleeps, normalized,
                   comments, streamed, stack, error>>

\* replace_more succeeds: _replace_more_comments returns
ReplaceMoreReturns ==
    /\ pc = "replace_more"
    /\ RetryBudgetLeft(retries, self.max_retries)
    /\ replace_more' = Append(replace_more, Invocation(FALSE))
    /\ pc' = "extract"
    /\ UNCHANGED <<stats, walk>>
    /\ UNCHANGED <<self, submission, call, retries, sleeps, normalized, comments,
                   streamed, stack, error>>

\* replace_more raises a PRAWException: raise it when the budget is spent,
\* sleep and go round the loop otherwise
ReplaceMoreRaises ==
    /\ pc = "replace_more"
    /\ RetryBudgetLeft(retries, self.max_retries)
    /\ replace_more' = Append(replace_more, Invocation(TRUE))
    /\ retries' = retries + 1
    /\ IF BudgetExhausted(retries', self.max_retries)
       THEN /\ pc' = "raised"
            /\ error' = PRAWException
            /\ UNCHANGED sleeps
       ELSE /\ sleeps' = Append(sleeps, Backoff(self.retry_delay, retries'))
            /\ UNCHANGED <<pc, error>>
    /\ UNCHANGED <<stats, walk>>
    /\ UNCHANGED <<self, submission, call, normalized, comments, streamed, stack>>

Caught_Any(exception) == TRUE

\* `except PRAWException`
Caught(exception) == exception = PRAWException

\* replace_more raises an exception that is not a PRAWException: the except
\* clause does not match and the exception leaves _replace_more_comments
ReplaceMoreRaisesOther ==
    /\ pc = "replace_more"
    /\ RetryBudgetLeft(retries, self.max_retries)
    /\ replace_more' = Append(replace_more, Invocation(TRUE))
    /\ IF Caught(OtherException)
       THEN /\ retries' = retries + 1
            /\ IF BudgetExhausted(retries', self.max_retries)
               THEN /\ pc' = "raised"
                    /\ error' = OtherException
                    /\ UNCHANGED sleeps
               ELSE /\ sleeps' = Append(sleeps, Backoff(self.retry_delay, retries'))
                    /\ UNCHANGED <<pc, error>>
       ELSE /\ pc' = "raised"
            /\ error' = OtherException
            /\ UNCHANGED <<retries, sleeps>>
    /\ UNCHANGED <<stats, walk>>
    /\ UNCHANGED <<self, submission, call, normalized, comments, streamed, stack>>

\* the loop condition is false: _replace_more_comments falls off its end
\* and returns None
ReplaceMoreLoopExit ==
    /\ pc = "replace_more"
    /\ ~RetryBudgetLeft(retries, self.max_retries)
    /\ pc' = "extract"
    /\ UNCHANGED <<stats, walk>>
    /\ UNCHANGED <<self, submission, call, retries, replace_more, sleeps,
                   normalized, comments, streamed, stack, error>>

----------------------------------------------------------------------------
(* The traversal that follows the expansion *)

Finish(result) ==
    /\ normalized' = normalized \o result.normalized
    /\ IF result.raised
       THEN /\ pc' = "raised"
            /\ error' = NormalizationError
            /\ UNCHANGED comments
       ELSE /\ pc' = "returned"
            /\ comments' = result.comments
            /\ UNCHANGED error
    /\ UNCHANGED <<stats, walk>>
    /\ UNCHANGED <<self, submission, call, retries, replace_more, sleeps,
                   streamed, stack>>

ExtractFlat ==
    /\ pc = "extract"
    /\ call.fn = "fetch_submission_comments" /\ call.flatten
    /\ Finish(ExtractCommentsFlat(submission.comments, submission.id,
                                  call.include_deleted))

ExtractTree ==
    /\ pc = "extract"
    /\ call.fn = "fetch_submission_comments" /\ ~call.flatten
    /\ Finish(ExtractCommentsTree(submission.comments, submission.comments.top,
                                  submission.id, None, 0, call.include_deleted))

\* the consumer asks the generator for its next element
StreamNext ==
    /\ call.fn = "fetch_submission_comments_stream"
    /\ pc \in {"extract", "streaming"}
    /\ LET stk == IF pc = "extract"
                  THEN <<Frame(submission.comments.top, None, 0)>>
                  ELSE stack
           r == Resume(submission.comments, stk, submission.id,
                       call.include_deleted, <<>>)
       IN  /\ normalized' = normalized \o r.normalized
           /\ stack' = r.stack
           /\ streamed' = streamed \o r.data
           /\ pc' = CASE r.status = "yield" -> "streaming"
                      [] r.status = "stop" -> "exhausted"
                      [] OTHER -> "raised"
           /\ error' = IF r.status = "raise" THEN NormalizationError ELSE error
    /\ UNCHANGED <<stats, walk>>
    /\ UNCHANGED <<self, submission, call, retries, replace_more, sleeps, comments>>

----------------------------------------------------------------------------
(* get_comment_stats *)

\* the quotient num / den of a true division, kept exact
Ratio(num, den) == [num |-> num, den |-> den]

\* the locals before the loop
StatsStart ==
    [unique_authors |-> {}, deleted_count |-> 0, removed_count |-> 0,
     total_score |-> 0, max_depth |-> 0, gilded_count |-> 0]

AddAuthor_CountsDeleted(unique_authors, comment) ==
    unique_authors \cup {comment.author}

AddAuthor(unique_authors, comment) ==
    IF comment.author # DELETED THEN unique_authors \cup {comment.author}
    ELSE unique_authors

\* one pass of the loop body
StatsStep(acc, comment) ==
    [unique_authors |-> AddAuthor(acc.unique_authors, comment),
     deleted_count |-> acc.deleted_count + (IF comment.is_deleted THEN 1 ELSE 0),
     removed_count |-> acc.removed_count + (IF comment.is_removed THEN 1 ELSE 0),
     total_score |-> acc.total_score + comment.score,
     max_depth |-> IF comment.depth > acc.max_depth THEN comment.depth
                   ELSE acc.max_depth,
     gilded_count |-> acc.gilded_count + comment.gilded]

RECURSIVE StatsLoop(_, _)
StatsLoop(acc, comment_list) ==
    IF comment_list = <<>> THEN acc
    ELSE StatsLoop(StatsStep(acc, Head(comment_list)), Tail(comment_list))

AverageScore_OverLive(total_score, comment_list) ==
    Ratio(total_score, Len(SelectSeq(comment_list, LAMBDA c : ~c.is_deleted)))

\* total_score / len(comments) if comments else 0
AverageScore(total_score, comment_list) ==
    IF comment_list # <<>> THEN Ratio(total_score, Len(comment_list))
    ELSE Ratio(0, 1)

\* the dictionary built from the locals; dividing by zero raises instead
StatsOf(acc, comment_list, average_score) ==
    [raised |-> average_score.den = 0,
     total_comments |-> Len(comment_list),
     unique_authors |-> Cardinality(acc.unique_authors),
     deleted_comments |-> acc.deleted_count,
     removed_comments |-> acc.removed_count,
     average_score |-> average_score,
     max_depth |-> acc.max_depth,
     gilded_comments |-> acc.gilded_count]

GetCommentStats_Unguarded(comment_list) ==
    LET acc == StatsLoop(StatsStart, comment_list)
    IN  StatsOf(acc, comment_list, Ratio(acc.total_score, Len(comment_list)))

GetCommentStats(comment_list) ==
    IF comment_list = <<>> THEN StatsOf(StatsStart, <<>>, Ratio(0, 1))
    ELSE LET acc == StatsLoop(StatsStart, comment_list)
         IN  StatsOf(acc, comment_list, AverageScore(acc.total_score, comment_list))

\* the list a caller hands to get_comment_stats: what the fetch returned, or
\* the list made of the exhausted stream
StatsInput == IF call.fn = "fetch_submission_comments_stream" THEN streamed
              ELSE comments

\* get_comment_stats(comments) called on the result of the fetch
ComputeStats ==
    /\ pc \in {"returned", "exhausted"}
    /\ stats = NoStats
    /\ stats' = <<GetCommentStats(StatsInput)>>
    /\ UNCHANGED <<self, submission, call, pc, retries, replace_more, sleeps,
                   normalized, comments, streamed, stack, error, walk>>

----------------------------------------------------------------------------
(* _get_comment_depth, one action per pass of its loop *)

\* _get_comment_depth(comment) entered: depth = 0, current = comment
GetCommentDepthCall ==
    /\ pc = "idle"
    /\ walk.state = "idle"
    /\ \E k \in DOMAIN submission.comments.node :
           walk' = [comment |-> k, current |-> k, depth |-> 0, state |-> "walking"]
    /\ UNCHANGED <<self, submission, call, pc, retries, replace_more, sleeps,
                   normalized, comments, streamed, stack, error, stats>>

\* the loop condition evaluated: one more pass, or `return depth`
GetCommentDepthStep ==
    /\ walk.state = "walking"
    /\ IF LoopContinues(submission.comments, walk.current, walk.depth)
       THEN /\ walk.depth < MaxWalkDepth
            /\ walk' = [walk EXCEPT
                            !.current = submission.comments.node[walk.current].parent,
                            !.depth = @ + 1]
       ELSE walk' = [walk EXCEPT !.state = "returned"]
    /\ UNCHANGED <<self, submission, call, pc, retries, replace_more, sleeps,
                   normalized, comments, streamed, stack, error, stats>>

Next ==
    \/ FetchSubmissionComments
    \/ FetchSubmissionCommentsStream
    \/ ReplaceMoreReturns
    \/ ReplaceMoreRaises
    \/ ExtractFlat
    \/ ExtractTree
    \/ StreamNext

Spec == Init /\ [][Next]_vars
SpecRetry == InitRetry /\ [][Next]_vars
SpecDeep == InitDeep /\ [][Next]_vars
SpecNorm == InitNorm /\ [][Next]_vars
SpecBackoff == InitBackoff /\ [][Next]_vars
SpecFailure == InitFailure /\ [][Next]_vars

\* a fetch followed by get_comment_stats on its result
NextStats ==
    \/ Next
    \/ ComputeStats

SpecStats == InitStats /\ [][NextStats]_vars

\* fetches by fetchers whose loop condition can be false at once
NextNoBudget ==
    \/ Next
    \/ ReplaceMoreLoopExit

SpecNoBudget == InitNoBudget /\ [][NextNoBudget]_vars

\* fetches from a provider whose replace_more raises any kind of exception
NextOther ==
    \/ Next
    \/ ReplaceMoreRaisesOther

SpecOther == InitOther /\ [][NextOther]_vars

\* calls of _get_comment_depth; the interpreter goes on running the loop
NextWalk ==
    \/ GetCommentDepthCall
    \/ GetCommentDepthStep

SpecWalk == InitWalk /\ [][NextWalk]_vars /\ WF_vars(GetCommentDepthStep)

----------------------------------------------------------------------------
(* Properties of the retry wrapper *)

Invocations == Len(replace_more)

AllInvocationsRaised == \A i \in DOMAIN replace_more : replace_more[i].raised

\* C1: while every invocation of replace_more has raised a PRAWException, the
\* wrapper has invoked it at most max_retries times, and it has raised the
\* PRAWException to its caller exactly when it has invoked it max_retries
\* times; until then it is still inside its loop.
C1_ExhaustedBudgetRaises ==
    (Invocations > 0 /\ AllInvocationsRaised) =>
        /\ Invocations <= self.max_retries
        /\ retries = Invocations
        /\ (Invocations = self.max_retries) <=>
               (pc = "raised" /\ error = PRAWException)
        /\ (Invocations < self.max_retries) => pc = "replace_more"

C1_Witness ==
    /\ self.max_retries = MaxRetries
    /\ Invocations = MaxRetries
    /\ AllInvocationsRaised
    /\ pc = "raised"
    /\ error = PRAWException

\* C2: an invocation of replace_more that succeeds is the last one: every
\* invocation before it raised, it is the k-th with k <= max_retries, the
\* wrapper has returned (the fetch is past the expansion) and the
\* PRAWException is never raised to the caller.
C2_FirstSuccessEndsExpansion ==
    \A k \in DOMAIN replace_more :
        ~replace_more[k].raised =>
            /\ k = Invocations
            /\ k <= self.max_retries
            /\ \A j \in 1..(k - 1) : replace_more[j].raised
            /\ retries = k - 1
            /\ pc \notin {"idle", "replace_more"}
            /\ error # PRAWException

C2_Witness ==
    /\ self.max_retries = MaxRetries
    /\ Invocations = MaxRetries
    /\ ~replace_more[MaxRetries].raised
    /\ \A j \in 1..(MaxRetries - 1) : replace_more[j].raised
    /\ pc \in {"returned", "exhausted"}

----------------------------------------------------------------------------
(* What the caller has received, and the forest it came from *)

Range(s) == {s[i] : i \in DOMAIN s}

\* the records of a tree-mode result, nested replies included
RECURSIVE TreeRecords(_)
TreeRecords(recs) ==
    IF recs = <<>> THEN {}
    ELSE {Head(recs)} \cup TreeRecords(Head(recs).replies)
                      \cup TreeRecords(Tail(recs))

IsStream == call.fn = "fetch_submission_comments_stream"
IsFlat == call.fn = "fetch_submission_comments" /\ call.flatten
IsTree == call.fn = "fetch_submission_comments" /\ ~call.flatten

\* the records handed to the caller so far
Output ==
    IF IsStream THEN Range(streamed)
    ELSE IF IsFlat THEN Range(comments)
    ELSE TreeRecords(comments)

Ids(recs) == {r.id : r \in recs}

\* the fetch has ended without an exception
Completed == pc \in {"returned", "exhausted"}

Forest == submission.comments
Nodes == DOMAIN Forest.node
CommentNodes == {k \in Nodes : Forest.node[k].kind = "Comment"}
NodeOf(r) == CHOOSE k \in Nodes : Forest.node[k].id = r.id

\* the nodes whose reply list holds k (one node, for a reply)
ReplyParents(k) == {p \in Nodes : k \in Range(Forest.node[p].replies)}
IsReply(k) == ReplyParents(k) # {}

\* the number of comments above k, counted along the reply lists
RECURSIVE StructuralDepth(_)
StructuralDepth(k) ==
    IF ~IsReply(k) THEN 0
    ELSE 1 + StructuralDepth(CHOOSE p \in ReplyParents(k) : TRUE)

\* list(generator): the generator drawn until it stops or raises
RECURSIVE Drain(_, _, _, _)
Drain(forest, stk, submission_id, include_deleted) ==
    LET r == Resume(forest, stk, submission_id, include_deleted, <<>>)
    IN  IF r.status = "raise" THEN Result(TRUE, <<>>, r.normalized)
        ELSE IF r.status = "stop" THEN Result(FALSE, <<>>, r.normalized)
        ELSE LET rest == Drain(forest, r.stack, submission_id, include_deleted)
             IN  Result(rest.raised,
                        IF rest.raised THEN <<>> ELSE r.data \o rest.comments,
                        r.normalized \o rest.normalized)

ListOfStream(forest, submission_id, include_deleted) ==
    Drain(forest, <<Frame(forest.top, None, 0)>>, submission_id, include_deleted)

----------------------------------------------------------------------------
(* Properties of the traversals *)

\* C3: when a fetch has completed, the identifiers it produced are those the
\* flat, the tree and the stream traversal of the same forest produce with the
\* same include_deleted (whenever none of the three raises).
C3_SameIdentifiers ==
    Completed =>
        LET flat == ExtractCommentsFlat(Forest, submission.id, call.include_deleted)
            tree == ExtractCommentsTree(Forest, Forest.top, submission.id, None, 0,
                                        call.include_deleted)
            stream == ListOfStream(Forest, submission.id, call.include_deleted)
        IN  (~flat.raised /\ ~tree.raised /\ ~stream.raised) =>
                /\ Ids(Output) = Ids(Range(flat.comments))
                /\ Ids(Output) = Ids(TreeRecords(tree.comments))
                /\ Ids(Output) = Ids(Range(stream.comments))

\* C4: in every mode and at every nesting level, only real comment nodes are
\* passed to _process_comment, and every record handed to the caller is the
\* record of a real comment node; a placeholder is neither.
C4_PlaceholdersNeverInOutput ==
    /\ \A i \in DOMAIN normalized : normalized[i] \in CommentNodes
    /\ \A r \in Output : \E k \in CommentNodes : Forest.node[k].id = r.id
    /\ \A k \in Nodes \ CommentNodes :
           /\ Forest.node[k].id \notin Ids(Output)
           /\ k \notin Range(normalized)

C4_Witness ==
    /\ Completed
    /\ Output # {}
    /\ \E k \in Nodes \ CommentNodes : IsReply(k)
    /\ \E k \in Nodes \ CommentNodes : ~IsReply(k)

\* C5: with include_deleted false no record handed to the caller is deleted
\* and none is removed; with include_deleted true a completed fetch has a
\* record for every node that is not a placeholder.
C5_DeletedAndRemovedSkipped ==
    /\ ~call.include_deleted =>
           \A r \in Output : ~r.is_deleted /\ ~r.is_removed
    /\ (call.include_deleted /\ Completed) =>
           \A k \in CommentNodes : Forest.node[k].id \in Ids(Output)

C7_ProcessCommentReturnsNone ==
    (/\ normalized # <<>>
     /\ Forest.node[normalized[Len(normalized)]].body_raises) =>
        error # NormalizationError

\* C8 as claimed: for every record handed to the caller, in every mode, the
\* parent_id is null exactly when the node's raw parent reference is
\* submission-prefixed, and for a comment-prefixed raw reference it is the
\* reference with the prefix stripped.
C8_ParentIdNullIffTopLevel ==
    \A r \in Output :
        LET raw == Forest.node[NodeOf(r)].parent_id
        IN  /\ (r.parent_id = None) <=> StartsWith(raw, SUBMISSION_PREFIX)
            /\ StartsWith(raw, COMMENT_PREFIX) => COMMENT_PREFIX \o r.parent_id = raw

\* C8 amended: that holds of every record of flat mode and of every record of
\* a top-level node in tree and stream mode; a record visited as a reply in
\* tree or stream mode never has a null parent_id.
C8_DerivedParentId ==
    \A r \in Output :
        LET k == NodeOf(r)
            raw == Forest.node[k].parent_id
        IN  IF IsFlat \/ ~IsReply(k)
            THEN /\ (r.parent_id = None) <=> StartsWith(raw, SUBMISSION_PREFIX)
                 /\ StartsWith(raw, COMMENT_PREFIX) =>
                        COMMENT_PREFIX \o r.parent_id = raw
            ELSE r.parent_id # None

C8_Witness ==
    /\ IsFlat
    /\ pc = "returned"
    /\ \E r \in Output : r.parent_id = None
    /\ \E r \in Output :
           /\ IsReply(NodeOf(r))
           /\ StartsWith(Forest.node[NodeOf(r)].parent_id, COMMENT_PREFIX)
           /\ r.parent_id = Forest.node[CHOOSE p \in ReplyParents(NodeOf(r)) : TRUE].id

\* C9: in tree and stream mode the parent_id of every record visited as a
\* reply is the id of the node whose reply list holds it, whatever its own raw
\* parent reference says; in a tree result every nested reply carries the id
\* of the record it is nested in.
C9_ExplicitParentWins ==
    (IsTree \/ IsStream) =>
        /\ \A r \in Output :
               \A p \in ReplyParents(NodeOf(r)) : r.parent_id = Forest.node[p].id
        /\ IsTree =>
               \A r \in Output :
                   \A i \in DOMAIN r.replies : r.replies[i].parent_id = r.id

C9_Witness ==
    /\ IsTree
    /\ pc = "returned"
    /\ \E r \in Output :
           /\ IsReply(NodeOf(r))
           /\ StartsWith(Forest.node[NodeOf(r)].parent_id, SUBMISSION_PREFIX)
           /\ r.parent_id # None

\* C10: the depth of every record handed to the caller is the number of
\* comments above its node (0 at the top level), in flat mode by the ancestor
\* walk and in tree and stream mode by the recursion depth; the ancestor walk
\* gives that number for every comment node of the forest.
C10_DepthIsAncestorCount ==
    /\ \A r \in Output : r.depth = StructuralDepth(NodeOf(r))
    /\ \A k \in CommentNodes : GetCommentDepth(Forest, k) = StructuralDepth(k)

C10_Witness ==
    /\ IsFlat
    /\ pc = "returned"
    /\ \E r \in Output : r.depth = 3 /\ StructuralDepth(NodeOf(r)) = 3

----------------------------------------------------------------------------
(* Properties of the deletion and removal flags *)

\* C11: every record the normalizer has produced satisfies: is_deleted
\* implies that author is the deleted sentinel and body is the deleted
\* sentinel text; is_removed implies that body is the removed sentinel text;
\* and a raw node with an author present and the removed sentinel body has
\* is_removed true and is_deleted false.
C11_FlagInvariants ==
    \A r \in Output :
        /\ r.is_deleted => (r.author = DELETED /\ r.body = DELETED)
        /\ r.is_removed => r.body = REMOVED
        /\ (Forest.node[NodeOf(r)].author # NoAuthor /\ r.body = REMOVED) =>
               (r.is_removed /\ ~r.is_deleted)

C11_Witness ==
    /\ Completed
    /\ \E r \in Output : r.is_deleted
    /\ \E r \in Output :
           /\ Forest.node[NodeOf(r)].author # NoAuthor
           /\ r.is_removed

\* a raw top-level node of the given kind, and the record the normalizer
\* makes of it for the submission at hand
RawNode(profile) ==
    MkNode([k \in {1} |-> 0], 1, [k \in {1} |-> profile], 1)

RecordOf(profile) == CommentRecord(RawNode(profile), submission.id, None, 0)

\* C12, as stated: is_deleted and is_removed are not mutually exclusive:
\* among the raw comment nodes (author present or absent, body normal,
\* deleted sentinel or removed sentinel) there is one whose normalized record
\* has both is_deleted and is_removed true.
C12_BothFlagsPossible ==
    \E profile \in NormProfiles :
        RecordOf(profile).is_deleted /\ RecordOf(profile).is_removed

\* C12, amended: is_deleted and is_removed are mutually exclusive: no record
\* the normalizer has produced has both true, not even that of a node with
\* no author and the removed sentinel body.
C12_FlagsMutuallyExclusive ==
    \A r \in Output : ~(r.is_deleted /\ r.is_removed)

C12_Witness ==
    \E r \in Output :
        /\ Forest.node[NodeOf(r)].author = NoAuthor
        /\ r.body = REMOVED
        /\ r.is_removed
        /\ ~r.is_deleted

----------------------------------------------------------------------------
(* Properties of get_comment_stats *)

Stats == stats[1]
StatsComputed == stats # NoStats

\* C13: get_comment_stats on the empty list returns statistics in which
\* every field is zero, and it returns them: no division by zero is raised.
C13_EmptyListAllZero ==
    (StatsComputed /\ StatsInput = <<>>) =>
        /\ ~Stats.raised
        /\ Stats.total_comments = 0
        /\ Stats.unique_authors = 0
        /\ Stats.deleted_comments = 0
        /\ Stats.removed_comments = 0
        /\ Stats.average_score.num = 0
        /\ Stats.max_depth = 0
        /\ Stats.gilded_comments = 0

C13_Witness ==
    /\ StatsComputed
    /\ StatsInput = <<>>
    /\ CommentNodes # {}

\* C14: the number of unique authors get_comment_stats returns is the number
\* of distinct author names in the list other than the deleted sentinel.
C14_UniqueAuthors ==
    StatsComputed =>
        Stats.unique_authors =
            Cardinality({r.author : r \in Range(StatsInput)} \ {DELETED})

\* the list of authors user1, user2, [deleted], user1 has 2 unique authors
C14_Witness ==
    /\ StatsComputed
    /\ Len(StatsInput) = 4
    /\ [i \in 1..4 |-> StatsInput[i].author] = <<"user1", "user2", DELETED, "user1">>
    /\ Stats.unique_authors = 2

RECURSIVE SumOf(_)
SumOf(numbers) ==
    IF numbers = <<>> THEN 0 ELSE Head(numbers) + SumOf(Tail(numbers))

Scores(recs) == [i \in DOMAIN recs |-> recs[i].score]
Gildings(recs) == [i \in DOMAIN recs |-> recs[i].gilded]

Largest(numbers) == CHOOSE m \in numbers : \A d \in numbers : m >= d

\* the comment nodes a flat fetch keeps, in the order of the provider's list
KeptByFlat ==
    SelectSeq(ForestList(Forest),
              LAMBDA k : /\ Forest.node[k].kind = "Comment"
                         /\ (call.include_deleted \/ ~IsDeleted(Forest.node[k])))

\* C15: for a non-empty list get_comment_stats returns: as total the number
\* of records, as deleted and removed counts the numbers of records with
\* is_deleted and with is_removed set, as average the sum of the scores
\* divided by the total, the largest depth, and the sum of gilded.  A deleted
\* record counts in the total and the average exactly when the fetch kept
\* it: a flat fetch hands over one record for every comment node, or for
\* every comment node that is not deleted when include_deleted is false.
C15_StatsOfNonEmptyList ==
    (StatsComputed /\ StatsInput # <<>>) =>
        /\ ~Stats.raised
        /\ Stats.total_comments = Len(StatsInput)
        /\ Stats.deleted_comments =
               Cardinality({i \in DOMAIN StatsInput : StatsInput[i].is_deleted})
        /\ Stats.removed_comments =
               Cardinality({i \in DOMAIN StatsInput : StatsInput[i].is_removed})
        /\ Stats.average_score.den # 0
        /\ Stats.average_score.num * Stats.total_comments =
               SumOf(Scores(StatsInput)) * Stats.average_score.den
        /\ Stats.max_depth = Largest({r.depth : r \in Range(StatsInput)})
        /\ Stats.gilded_comments = SumOf(Gildings(StatsInput))
        /\ IsFlat =>
               /\ Stats.total_comments = Len(KeptByFlat)
               /\ Scores(StatsInput) =
                      [i \in DOMAIN KeptByFlat |-> Forest.node[KeptByFlat[i]].score]

\* scores 10, 20 and a deleted comment of score 0, fetched without the
\* deleted comment: the average is 15 over 2 records
C15_Witness ==
    /\ StatsComputed
    /\ IsFlat
    /\ ~call.include_deleted
    /\ Len(ForestList(Forest)) = 3
    /\ \E k \in Nodes : IsDeleted(Forest.node[k]) /\ Forest.node[k].score = 0
    /\ Scores(StatsInput) = <<10, 20>>
    /\ Stats.total_comments = 2
    /\ Stats.average_score.num = 15 * Stats.average_score.den

----------------------------------------------------------------------------
(* Properties of the order of expansion and traversal *)

\* the fetch is past _replace_more_comments and into the traversal
Traversing == pc \in {"extract", "streaming", "returned", "exhausted"}

----------------------------------------------------------------------------
(* Properties of the stream *)

\* the nodes of a forest in pre-order: a node, then its replies, then the
\* siblings that follow it
RECURSIVE PreOrderFrom(_, _)
PreOrderFrom(forest, items) ==
    IF items = <<>> THEN <<>>
    ELSE <<Head(items)>> \o PreOrderFrom(forest, forest.node[Head(items)].replies)
                        \o PreOrderFrom(forest, Tail(items))

PreOrder == PreOrderFrom(Forest, Forest.top)

\* k and the nodes above it, along the reply lists
RECURSIVE Lineage(_)
Lineage(k) ==
    {k} \cup (IF IsReply(k) THEN Lineage(CHOOSE p \in ReplyParents(k) : TRUE)
              ELSE {})

\* the comment nodes the tree and stream traversals come to: every comment
\* node, or those with no deleted node on their lineage
Visible(k) ==
    /\ Forest.node[k].kind = "Comment"
    /\ call.include_deleted \/ \A a \in Lineage(k) : ~IsDeleted(Forest.node[a])

VisiblePreOrder == SelectSeq(PreOrder, Visible)

\* the nodes whose records have been yielded, in the order of the yields
StreamedNodes == [i \in DOMAIN streamed |-> NodeOf(streamed[i])]

\* C17: the stream yields its records in pre-order: what has been yielded
\* is at every moment a prefix of the pre-order of the nodes the traversal
\* keeps (a record before the records of its replies, siblings in forest
\* order), and all of it once the stream is exhausted.  Each record is
\* yielded right after its node is normalized and before another node is
\* normalized, and nodes are normalized only as the consumer asks for the
\* next record: the nodes normalized so far are the nodes yielded so far,
\* plus the node whose normalization raised.
C17_StreamIsLazyPreOrder ==
    IsStream =>
        /\ Len(StreamedNodes) <= Len(VisiblePreOrder)
        /\ StreamedNodes = SubSeq(VisiblePreOrder, 1, Len(StreamedNodes))
        /\ pc = "exhausted" => StreamedNodes = VisiblePreOrder
        /\ pc # "raised" => normalized = StreamedNodes
        /\ pc = "raised" =>
               \/ normalized = StreamedNodes
               \/ /\ normalized # <<>>
                  /\ normalized = Append(StreamedNodes, normalized[Len(normalized)])
        /\ pc = "streaming" =>
               /\ streamed # <<>>
               /\ stack # <<>>
               /\ Head(stack).yielded
               /\ Head(stack).items[Head(stack).i] = normalized[Len(normalized)]

\* a comment, its reply and then the next top-level comment, each yielded
\* on request
C17_Witness ==
    /\ IsStream
    /\ pc = "exhausted"
    /\ Forest.top = <<1, 3>>
    /\ Forest.node[1].replies = <<2>>
    /\ StreamedNodes = <<1, 2, 3>>

----------------------------------------------------------------------------
(* Properties of the backoff *)

\* the failed invocations that were not the last the budget allows
FailuresBeforeLast ==
    {n \in DOMAIN replace_more : replace_more[n].raised /\ n < self.max_retries}

\* C18: the wrapper sleeps once after each failed invocation n with
\* n < max_retries, for exactly retry_delay * 2^(n-1), the n-th sleep
\* following the n-th failure; it does not sleep after a success nor after
\* the last failure the budget allows, so that when the wrapper has ended,
\* by returning or by raising, it has slept once less than it has invoked
\* replace_more.
C18_BackoffDelays ==
    /\ Len(sleeps) = Cardinality(FailuresBeforeLast)
    /\ \A n \in DOMAIN sleeps :
           /\ n \in FailuresBeforeLast
           /\ sleeps[n] = self.retry_delay * (2 ^ (n - 1))
    /\ \A n \in DOMAIN sleeps : n > 1 => sleeps[n] = 2 * sleeps[n - 1]
    /\ pc = "replace_more" => Len(sleeps) = Invocations
    /\ pc \notin {"idle", "replace_more"} => Len(sleeps) = Invocations - 1

\* three failures, each followed by a sleep twice as long as the one before,
\* and a fourth that is the last
C18_Witness ==
    /\ self.retry_delay = 3
    /\ Invocations = 4
    /\ AllInvocationsRaised
    /\ sleeps = <<3, 6, 12>>
    /\ pc = "raised"

----------------------------------------------------------------------------
(* Properties of the ancestor walk *)

\* following parent() from k comes, within fuel lookups, to a node whose
\* parent() is None or the Submission
RECURSIVE ChainEnds(_, _)
ChainEnds(k, fuel) ==
    LET parent == Forest.node[k].parent
    IN  IF parent \in {NoParent, 0} THEN TRUE
        ELSE IF fuel = 0 THEN FALSE
        ELSE ChainEnds(parent, fuel - 1)

\* the ancestor chain of k is finite: it does not run into a cycle
Acyclic(k) == ChainEnds(k, Cardinality(Nodes))

WalkReturned == walk.state = "returned"

\* C19: a call of _get_comment_depth on a comment whose ancestor chain is
\* acyclic (it ends at the Submission or at a node with no parent) returns;
\* a call on a comment whose chain is cyclic or self-referential never
\* returns.
C19_DepthWalkTermination ==
    /\ (walk.state = "walking" /\ Acyclic(walk.comment)) ~> WalkReturned
    /\ [](WalkReturned => Acyclic(walk.comment))

\* a comment that is its own parent: the walk has gone round more often
\* than the forest has nodes and is still in its loop
C19_Witness ==
    /\ walk.state = "walking"
    /\ Forest.node[walk.comment].parent = walk.comment
    /\ walk.depth > Cardinality(Nodes)

----------------------------------------------------------------------------
(* Properties of a failure in the middle of a traversal *)

\* the comment nodes a traversal comes to: all of them in flat mode
Reached(k) == IF IsFlat THEN k \in CommentNodes ELSE Visible(k)

\* the nodes the stream comes to before the first one whose body cannot be
\* read, in pre-order
BeforeFailure ==
    LET failing == {i \in DOMAIN VisiblePreOrder :
                        Forest.node[VisiblePreOrder[i]].body_raises}
        first == CHOOSE i \in failing : \A j \in failing : i <= j
    IN  IF failing = {} THEN VisiblePreOrder
        ELSE SubSeq(VisiblePreOrder, 1, first - 1)

----------------------------------------------------------------------------
(* Properties of the pruning below a deleted node *)

\* the comment nodes that are not deleted, and those of them with no deleted
\* node above them
Live == {k \in CommentNodes : ~IsDeleted(Forest.node[k])}
Unpruned == {k \in Live : \A a \in Lineage(k) : ~IsDeleted(Forest.node[a])}

IdsOf(nodes) == {Forest.node[k].id : k \in nodes}

\* C21: with include_deleted false, the tree and the stream traversal leave
\* out a deleted node and its whole reply subtree, whose nodes they never
\* pass to _process_comment, while the flat traversal of the same forest
\* leaves out the deleted node only: it passes every comment node of the
\* provider's list to _process_comment and hands over the record of every
\* one that is not deleted, the descendants of a deleted node included.
C21_DeletedSubtreePruning ==
    (Completed /\ ~call.include_deleted) =>
        LET flat == ExtractCommentsFlat(Forest, submission.id, FALSE)
            tree == ExtractCommentsTree(Forest, Forest.top, submission.id, None, 0,
                                        FALSE)
            stream == ListOfStream(Forest, submission.id, FALSE)
        IN  /\ Ids(Range(flat.comments)) = IdsOf(Live)
            /\ Range(flat.normalized) = CommentNodes
            /\ Ids(TreeRecords(tree.comments)) = IdsOf(Unpruned)
            /\ Range(tree.normalized) = Unpruned
            /\ Ids(Range(stream.comments)) = IdsOf(Unpruned)
            /\ Range(stream.normalized) = Unpruned
            /\ Ids(Output) = IF IsFlat THEN IdsOf(Live) ELSE IdsOf(Unpruned)
            /\ Range(normalized) = IF IsFlat THEN CommentNodes ELSE Unpruned

\* a flat fetch returned the record of a reply to a deleted comment, which
\* the tree traversal of the same forest leaves out
C21_Witness ==
    /\ Completed
    /\ IsFlat
    /\ ~call.include_deleted
    /\ \E k \in Live \ Unpruned :
           /\ Forest.node[k].id \in Ids(Output)
           /\ Forest.node[k].id \notin
                  Ids(TreeRecords(ExtractCommentsTree(Forest, Forest.top,
                                      submission.id, None, 0, FALSE).comments))

----------------------------------------------------------------------------
(* Properties of a fetcher without a retry budget *)

\* what the traversal of the call's mode makes of the forest as it stands
TraversalOfForest ==
    IF IsFlat THEN ExtractCommentsFlat(Forest, submission.id, call.include_deleted)
    ELSE IF IsTree
    THEN ExtractCommentsTree(Forest, Forest.top, submission.id, None, 0,
                             call.include_deleted)
    ELSE ListOfStream(Forest, submission.id, call.include_deleted)

\* C22: with max_retries <= 0, _replace_more_comments returns without ever
\* invoking replace_more, without sleeping and without raising, and the
\* fetch goes on to traverse the forest as it was handed over, placeholders
\* unexpanded: a completed fetch has handed over what the traversal makes of
\* that forest.
C22_NoBudgetNoExpansion ==
    self.max_retries <= 0 =>
        /\ replace_more = <<>>
        /\ sleeps = <<>>
        /\ retries = 0
        /\ error # PRAWException
        /\ pc # "raised"
        /\ Completed =>
               /\ normalized = TraversalOfForest.normalized
               /\ (IF IsStream THEN streamed ELSE comments) =
                      TraversalOfForest.comments

\* a fetch by a fetcher with max_retries = 0 has completed over a forest
\* that still holds its placeholder
C22_Witness ==
    /\ self.max_retries = 0
    /\ Completed
    /\ replace_more = <<>>
    /\ normalized # <<>>
    /\ Output # {}
    /\ Nodes \ CommentNodes # {}

----------------------------------------------------------------------------
(* Properties of an exception that is not the provider's *)

\* C23: an exception of replace_more that is not a PRAWException leaves
\* _replace_more_comments at the invocation that raised it, whatever is
\* left of the retry budget: it is not counted as a retry, no sleep follows
\* it, it is the last invocation (the sleeps and the retries are those of
\* the PRAWExceptions before it), and the fetch ends without normalizing a
\* node or handing over a record.
C23_OtherExceptionPropagates ==
    /\ error = OtherException =>
           /\ pc = "raised"
           /\ Invocations >= 1
           /\ Invocations <= self.max_retries
           /\ AllInvocationsRaised
           /\ retries = Invocations - 1
           /\ Len(sleeps) = Invocations - 1
           /\ normalized = <<>>
           /\ comments = <<>>
           /\ streamed = <<>>
    /\ Len(sleeps) <= Cardinality(FailuresBeforeLast)
    /\ (pc = "replace_more" /\ Invocations > 0) =>
           (error = NoError /\ retries = Invocations)

\* the first invocation raised it, with three attempts of the budget unused
C23_Witness ==
    /\ error = OtherException
    /\ pc = "raised"
    /\ self.max_retries = MaxRetries
    /\ Invocations = 1
    /\ retries = 0
    /\ sleeps = <<>>

====
